---- MODULE Spec2Model ----
(***************************************************************************)
(* rodionov_regimes(data, l, p) of src/rodionov.py as a state machine.     *)
(*                                                                         *)
(* One behaviour is one call: Init fixes the arguments, and the actions    *)
(* are the statements of the function in program order (pc is the          *)
(* position in the function body).                                         *)
(*                                                                         *)
(* Numbers.  The code computes in float64.  The model computes exactly:    *)
(* a rational is a reduced pair <<numerator, denominator>>, and a float    *)
(* is a record that is either NaN, +inf, -inf or the number                *)
(*     a + c * sqrt(diff.sq)                                               *)
(* with a, c rational.  diff = t_stat * sqrt(2 * avg_var / l) is the only  *)
(* irrational quantity of the run, so every value the code computes has    *)
(* this shape, and every comparison of the code is decided exactly by      *)
(* comparing squares.  Rounding error of float64 is not modelled.          *)
(*                                                                         *)
(* The t quantile.  t_test.ppf(p, 2*l-2) is a library call.  For 0 < p < 1 *)
(* and 2*l-2 > 0 it ranges over all reals as p varies, so |ppf| is drawn   *)
(* from 0 .. MaxT.  For 2*l-2 = 0 (l = 1) the distribution has no valid    *)
(* shape parameter and the call yields NaN.                                *)
(***************************************************************************)
EXTENDS Integers, Sequences, FiniteSets

\* Bounds of the model.
MaxN == 6       \* longest input sequence with a free regime length
MaxVal == 1     \* observations are drawn from 0 .. MaxVal
MaxL == 3       \* the regime length l is drawn from 1 .. MaxL
MaxT == 2       \* |t quantile| is drawn from 0 .. MaxT

VARIABLES data, l, t_stat,            \* the arguments (t_stat stands for p)
          pc,                         \* position in the function body
          avg_var, diff,              \* step 2
          r1, r1_lower, r1_upper,     \* regime state
          i, j, k, test_r2,           \* loop variables
          rsi, regime_shift_indices,  \* the two outputs
          tested, examined, brokeAt, cand, snap   \* history of the run

vars == <<data, l, t_stat, pc, avg_var, diff, r1, r1_lower, r1_upper,
          i, j, k, test_r2, rsi, regime_shift_indices,
          tested, examined, brokeAt, cand, snap>>

----------------------------------------------------------------------------
\* Exact rationals: <<numerator, denominator>>, denominator > 0, reduced.

Abs(x) == IF x < 0 THEN -x ELSE x

Min(a, b) == IF a < b THEN a ELSE b

RECURSIVE GCD(_, _)
GCD(a, b) == IF b = 0 THEN a ELSE GCD(b, a % b)

Norm(num, den) ==
    LET g == GCD(Abs(num), Abs(den))
        s == IF den < 0 THEN -1 ELSE 1
    IN  <<(s * num) \div g, (s * den) \div g>>

RInt(x) == <<x, 1>>
RZero == RInt(0)
RAdd(p, q) == Norm(p[1] * q[2] + q[1] * p[2], p[2] * q[2])
RNeg(p) == <<-p[1], p[2]>>
RSub(p, q) == RAdd(p, RNeg(q))
RMul(p, q) == Norm(p[1] * q[1], p[2] * q[2])
RDiv(p, q) == Norm(p[1] * q[2], p[2] * q[1])
RSgn(p) == IF p[1] > 0 THEN 1 ELSE IF p[1] < 0 THEN -1 ELSE 0
RLt(p, q) == p[1] * q[2] < q[1] * p[2]

----------------------------------------------------------------------------
\* float64 values: NaN, +inf, -inf, or a + c * sqrt(diff.sq).

NaN == [kind |-> "nan", a |-> RZero, c |-> RZero]
PInf == [kind |-> "pinf", a |-> RZero, c |-> RZero]
NInf == [kind |-> "ninf", a |-> RZero, c |-> RZero]
Num(a, c) == [kind |-> "num", a |-> a, c |-> c]
FRat(q) == Num(q, RZero)
FInt(x) == FRat(RInt(x))
FZero == FInt(0)

\* The sign (-1, 0, 1) of a + c * sqrt(sq), by comparing a^2 with c^2 * sq.
AffineSgn(a, c, sq) ==
    LET sa == RSgn(a)
        sc == IF RSgn(sq) = 0 THEN 0 ELSE RSgn(c)
        a2 == RMul(a, a)
        c2 == RMul(RMul(c, c), sq)
    IN  IF sc = 0 THEN sa
        ELSE IF sa = 0 \/ sa = sc THEN sc
        ELSE IF RLt(c2, a2) THEN sa
        ELSE IF RLt(a2, c2) THEN sc
        ELSE 0

\* The sign of a float; 2 stands for "no sign" (NaN).
FSgn(x) ==
    CASE x.kind = "nan" -> 2
      [] x.kind = "pinf" -> 1
      [] x.kind = "ninf" -> -1
      [] OTHER -> AffineSgn(x.a, x.c, diff.sq)

FNeg(x) ==
    CASE x.kind = "nan" -> NaN
      [] x.kind = "pinf" -> NInf
      [] x.kind = "ninf" -> PInf
      [] OTHER -> Num(RNeg(x.a), RNeg(x.c))

FAdd(x, y) ==
    IF x.kind = "nan" \/ y.kind = "nan" THEN NaN
    ELSE IF x.kind = "num" /\ y.kind = "num"
         THEN Num(RAdd(x.a, y.a), RAdd(x.c, y.c))
    ELSE IF x.kind = "num" THEN y
    ELSE IF y.kind = "num" \/ y.kind = x.kind THEN x
    ELSE NaN

FSub(x, y) == FAdd(x, FNeg(y))

\* x * q and x / y for a rational q and a float y that holds a rational.
FScale(x, q) ==
    IF x.kind = "num" THEN Num(RMul(x.a, q), RMul(x.c, q)) ELSE x

FDiv(x, y) ==
    IF x.kind = "nan" \/ y.kind = "nan" THEN NaN
    ELSE IF RSgn(y.a) = 0
         THEN CASE FSgn(x) = 0 -> NaN
                [] FSgn(x) = 1 -> PInf
                [] OTHER -> NInf
    ELSE IF x.kind = "num" THEN Num(RDiv(x.a, y.a), RDiv(x.c, y.a))
    ELSE IF RSgn(y.a) > 0 THEN x ELSE FNeg(x)

\* Comparisons; every comparison with NaN is false.
FLt(x, y) ==
    /\ x.kind # "nan" /\ y.kind # "nan"
    /\ IF x.kind = "num" /\ y.kind = "num" THEN FSgn(FSub(x, y)) = -1
       ELSE x.kind # y.kind /\ (x.kind = "ninf" \/ y.kind = "pinf")

FGt(x, y) == FLt(y, x)

FLe(x, y) == x.kind # "nan" /\ y.kind # "nan" /\ ~FLt(y, x)

----------------------------------------------------------------------------
\* numpy on slices of data.  data is a function on 0 .. n-1, as in the code.

n == Cardinality(DOMAIN data)

RECURSIVE SumRange(_, _)
SumRange(lo, hi) ==
    IF lo >= hi THEN 0 ELSE data[lo] + SumRange(lo + 1, hi)

RECURSIVE SumSqRange(_, _)
SumSqRange(lo, hi) ==
    IF lo >= hi THEN 0 ELSE data[lo] * data[lo] + SumSqRange(lo + 1, hi)

\* np.mean(data[lo:hi]); a slice stops at n, the mean of nothing is NaN.
Mean(lo, hi) ==
    LET h == Min(hi, n)
    IN  IF lo >= h THEN NaN ELSE FRat(Norm(SumRange(lo, h), h - lo))

\* np.var(data[lo:hi]), the population variance, for a non-empty slice.
Var(lo, hi) ==
    LET h == Min(hi, n)
        m == h - lo
    IN  Norm(m * SumSqRange(lo, h) - SumRange(lo, h) * SumRange(lo, h), m * m)

RECURSIVE SumVar(_)
SumVar(cnt) ==
    IF cnt <= 0 THEN RZero ELSE RAdd(Var(cnt - 1, cnt - 1 + l), SumVar(cnt - 1))

\* np.mean([np.var(data[i:(i+l)]) for i in range(n-l)])
AvgVar ==
    IF n - l <= 0 THEN NaN ELSE FRat(RDiv(SumVar(n - l), RInt(n - l)))

\* diff = t_stat * np.sqrt(2 * avg_var / l), kept as its square.
Diff(ts, av) ==
    IF ts.kind = "nan" \/ av.kind = "nan"
    THEN [nan |-> TRUE, sq |-> RZero]
    ELSE [nan |-> FALSE,
          sq |-> RMul(RMul(ts.a, ts.a), RDiv(RMul(RInt(2), av.a), RInt(l)))]

DiffVal(d) == IF d.nan THEN NaN ELSE Num(RZero, RInt(1))

LowerBound(m, d) == FSub(m, DiffVal(d))
UpperBound(m, d) == FAdd(m, DiffVal(d))

----------------------------------------------------------------------------
\* The pieces of the scan.

\* Variant: the scan starts one index early.
ScanFromL == l

\* i = l + 1
FirstScanIndex == l + 1

\* data[i] < r1_lower or data[i] > r1_upper
OutOfBounds(x) == FLt(FInt(x), r1_lower) \/ FGt(FInt(x), r1_upper)

\* test_r2 = r1_lower if data[i] < r1_lower else r1_upper
CrossedBound(x) == IF FLt(FInt(x), r1_lower) THEN r1_lower ELSE r1_upper

\* min(j + l, n), the end of the forward window of a candidate
WindowEnd(jj) == Min(jj + l, n)

\* rsi[j] after the if/elif of one pass of the for loop
Accumulated(jj, kk) ==
    LET den == FScale(avg_var, RInt(l))
    IN  IF FGt(FInt(data[jj]), r1)
        THEN FAdd(rsi[jj], FDiv(FSub(FInt(data[kk]), test_r2), den))
        ELSE IF FLt(FInt(data[jj]), r1)
        THEN FAdd(rsi[jj], FDiv(FSub(test_r2, FInt(data[kk])), den))
        ELSE rsi[jj]

\* if rsi[j] < 0
Reverted(v) == FLt(v, FZero)

\* Variant: the negative sum is left in the trace.
KeepNegative(v) == v

\* rsi[j] = 0
Clamped(v) == FZero

\* Variant: the loop goes on after the clamp.
NeverBreaks(v) == FALSE

\* break: the for loop stops at the pass that found rsi[j] < 0
Breaks(v) == Reverted(v)

\* Variant: rsi[j] >= 0 confirms.
NotNegative(v) == FLe(FZero, v)

\* if rsi[j] > 0
Significant(v) == FGt(v, FZero)

\* Variant: the regime mean is not moved to the new regime.
KeepOldMean(jj) == r1

\* r2 = np.mean(data[j:min(j+l,n)])
NewRegimeMean(jj) == Mean(jj, WindowEnd(jj))

\* r1 = ((l - 1) * r1 + data[i]) / l
SmoothedMean(m, x) == FScale(FAdd(FScale(m, RInt(l - 1)), FInt(x)), <<1, l>>)

\* Variant: the increment after i = j + 1 is lost.
SuccessorIndex(jj) == jj + 1

\* i = j + 1 followed by i += 1
NextScanIndex(jj) == (jj + 1) + 1

----------------------------------------------------------------------------
\* The call.

\* The state at the call, lines 27-29 done: the arguments d, ll and the
\* quantile t that p stands for.
Called(d, ll, t) ==
    /\ data = d
    /\ l = ll
    /\ t_stat = IF 2 * ll - 2 > 0 THEN FInt(t) ELSE NaN
    /\ rsi = [x \in DOMAIN d |-> FZero]
    /\ regime_shift_indices = <<>>
    /\ tested = {}
    /\ examined = [x \in DOMAIN d |-> {}]
    /\ brokeAt = [x \in DOMAIN d |-> -1]
    /\ cand = [x \in DOMAIN d |-> NaN]
    /\ snap = <<NaN, NaN, NaN>>
    /\ pc = "start"
    /\ avg_var = NaN
    /\ diff = [nan |-> TRUE, sq |-> RZero]
    /\ r1 = NaN /\ r1_lower = NaN /\ r1_upper = NaN
    /\ i = 0 /\ j = 0 /\ k = 0
    /\ test_r2 = NaN

\* Every sequence of up to MaxN observations, every l up to MaxL.
InitShort ==
    \E d \in UNION {[0 .. (m - 1) -> 0 .. MaxVal] : m \in 1 .. MaxN} :
      \E ll \in 1 .. MaxL :
        \E t \in 0 .. MaxT : Called(d, ll, t)

\* Longer sequences of two levels, with the regime length above MaxL.
InitWide ==
    \E d \in UNION {[0 .. (m - 1) -> {0, MaxVal}] : m \in 1 .. (MaxN + 3)} :
      \E t \in 0 .. MaxT : Called(d, MaxL + 1, t)

Init == InitShort \/ InitWide

\* Steps 2 and 3: the threshold, the first regime mean, the first index.
ComputeThreshold ==
    /\ pc = "start"
    /\ avg_var' = AvgVar
    /\ diff' = Diff(t_stat, avg_var')
    /\ r1' = Mean(0, l)
    /\ r1_lower' = LowerBound(r1', diff')
    /\ r1_upper' = UpperBound(r1', diff')
    /\ i' = FirstScanIndex
    /\ pc' = "scan"
    /\ UNCHANGED <<data, l, t_stat, j, k, test_r2, rsi, regime_shift_indices,
                   tested, examined, brokeAt, cand, snap>>

\* Step 4, out of range: data[i] opens a candidate at j = i.
FlagCandidate ==
    /\ pc = "scan"
    /\ i < n
    /\ OutOfBounds(data[i])
    /\ j' = i
    /\ test_r2' = CrossedBound(data[i])
    /\ k' = i + 1
    /\ pc' = "window"
    /\ tested' = tested \cup {i}
    /\ cand' = [cand EXCEPT ![i] = CrossedBound(data[i])]
    /\ snap' = <<r1, r1_lower, r1_upper>>
    /\ UNCHANGED <<data, l, t_stat, avg_var, diff, r1, r1_lower, r1_upper, i,
                   rsi, regime_shift_indices, examined, brokeAt>>

\* Steps 5 and 6: one pass of the for loop over the forward window.
Accumulate ==
    /\ pc = "window"
    /\ k < WindowEnd(j)
    /\ examined' = [examined EXCEPT ![j] = @ \cup {k}]
    /\ LET v == Accumulated(j, k)
       IN  /\ rsi' = [rsi EXCEPT ![j] = IF Reverted(v) THEN Clamped(v) ELSE v]
           /\ IF Breaks(v)
              THEN /\ brokeAt' = [brokeAt EXCEPT ![j] = k]
                   /\ k' = k
                   /\ pc' = "confirm"
              ELSE /\ brokeAt' = brokeAt
                   /\ k' = k + 1
                   /\ pc' = "window"
    /\ UNCHANGED <<data, l, t_stat, avg_var, diff, r1, r1_lower, r1_upper,
                   i, j, test_r2, regime_shift_indices, tested, cand, snap>>

\* The for loop runs out of indices.
WindowDone ==
    /\ pc = "window"
    /\ ~(k < WindowEnd(j))
    /\ pc' = "confirm"
    /\ UNCHANGED <<data, l, t_stat, avg_var, diff, r1, r1_lower, r1_upper,
                   i, j, k, test_r2, rsi, regime_shift_indices,
                   tested, examined, brokeAt, cand, snap>>

\* Step 7, rsi[j] > 0: record the shift and move the regime.
ConfirmShift ==
    /\ pc = "confirm"
    /\ Significant(rsi[j])
    /\ regime_shift_indices' = Append(regime_shift_indices, j)
    /\ r1' = NewRegimeMean(j)
    /\ r1_lower' = LowerBound(r1', diff)
    /\ r1_upper' = UpperBound(r1', diff)
    /\ i' = NextScanIndex(j)
    /\ pc' = "scan"
    /\ UNCHANGED <<data, l, t_stat, avg_var, diff, j, k, test_r2, rsi,
                   tested, examined, brokeAt, cand, snap>>

\* Step 7, otherwise: the candidate is dropped, the regime stays.
RejectShift ==
    /\ pc = "confirm"
    /\ ~Significant(rsi[j])
    /\ i' = NextScanIndex(j)
    /\ pc' = "scan"
    /\ UNCHANGED <<data, l, t_stat, avg_var, diff, r1, r1_lower, r1_upper,
                   j, k, test_r2, rsi, regime_shift_indices,
                   tested, examined, brokeAt, cand, snap>>

\* Step 4, in range: fold data[i] into the regime mean.
UpdateMean ==
    /\ pc = "scan"
    /\ i < n
    /\ ~OutOfBounds(data[i])
    /\ r1' = SmoothedMean(r1, data[i])
    /\ i' = i + 1
    /\ tested' = tested \cup {i}
    /\ UNCHANGED <<data, l, t_stat, pc, avg_var, diff, r1_lower, r1_upper,
                   j, k, test_r2, rsi, regime_shift_indices,
                   examined, brokeAt, cand, snap>>

\* The while loop ends: return regime_shift_indices, rsi.
Return ==
    /\ pc = "scan"
    /\ ~(i < n)
    /\ pc' = "done"
    /\ UNCHANGED <<data, l, t_stat, avg_var, diff, r1, r1_lower, r1_upper,
                   i, j, k, test_r2, rsi, regime_shift_indices,
                   tested, examined, brokeAt, cand, snap>>

Next ==
    \/ ComputeThreshold
    \/ FlagCandidate
    \/ Accumulate
    \/ WindowDone
    \/ ConfirmShift
    \/ RejectShift
    \/ UpdateMean
    \/ Return

Spec == Init /\ [][Next]_vars

----------------------------------------------------------------------------
\* Properties.

ShiftSet == {regime_shift_indices[x] : x \in 1 .. Len(regime_shift_indices)}

\* A candidate was flagged at x, and steps 5 to 7 for it are over.
Flagged(x) == cand[x].kind # "nan"
Processed(x) == Flagged(x) /\ ~(pc \in {"window", "confirm"} /\ j = x)

\* The outer scan has tested nothing since the candidate at j.
JustProcessed == pc = "scan" /\ Flagged(j) /\ \A y \in tested : y <= j

\* data[x+1] is on the old regime's side of the bound that data[x] crossed.
SuccessorInside(x) ==
    /\ x + 1 < n
    /\ \/ FGt(FInt(data[x]), cand[x]) /\ FLt(FInt(data[x + 1]), cand[x])
       \/ FLt(FInt(data[x]), cand[x]) /\ FGt(FInt(data[x + 1]), cand[x])

\* C1: when the call returns, rsi[x] > 0 exactly at the indices of the
\* returned shift list, and every other entry is exactly 0.
C1_RsiPositiveExactlyAtShifts ==
    pc = "done" =>
        \A x \in DOMAIN rsi :
            IF x \in ShiftSet THEN FSgn(rsi[x]) = 1 ELSE FSgn(rsi[x]) = 0

\* A returned run with a confirmed shift and a candidate clamped to 0.
C1_Witness ==
    /\ pc = "done"
    /\ ShiftSet # {}
    /\ \E x \in DOMAIN data : brokeAt[x] # -1

\* C2: the returned shift list is strictly increasing and each of its
\* elements lies in l+1 .. n-1.
C2_ShiftsIncreasingInRange ==
    pc = "done" =>
        /\ \A x \in 1 .. Len(regime_shift_indices) :
               l + 1 <= regime_shift_indices[x] /\ regime_shift_indices[x] <= n - 1
        /\ \A x \in 1 .. (Len(regime_shift_indices) - 1) :
               regime_shift_indices[x] < regime_shift_indices[x + 1]

\* A returned run with two shifts, the first at l+1.
C2_Witness ==
    /\ pc = "done"
    /\ Len(regime_shift_indices) >= 2
    /\ regime_shift_indices[1] = l + 1

\* C3: with l >= n the call fails (InvalidParameter) and returns nothing.
C3_FailsWhenLNotBelowN == (n - l <= 0) => pc # "done"

\* C4: with a zero average variance the call fails (DegenerateInput) and
\* returns nothing.
C4_FailsOnZeroVariance ==
    (pc # "start" /\ l < n /\ avg_var = FZero) => pc # "done"

\* C5: once the sum of a candidate x went negative at some k, rsi[x] is 0,
\* the window was examined up to k and no further, and x is never recorded;
\* a candidate whose successor is back on the old regime's side of the
\* crossed bound is rejected at k = x+1.
C5_RevertedCandidateRejected ==
    \A x \in DOMAIN data :
        /\ brokeAt[x] # -1 =>
               /\ FSgn(rsi[x]) = 0
               /\ x \notin ShiftSet
               /\ examined[x] = (x + 1) .. brokeAt[x]
               /\ brokeAt[x] < WindowEnd(x)
        /\ (/\ Flagged(x)
            /\ x + 1 < WindowEnd(x)
            /\ SuccessorInside(x)
            /\ ~(pc = "window" /\ j = x /\ k = x + 1)) =>
               /\ brokeAt[x] = x + 1
               /\ x \notin ShiftSet

\* A returned run that rejected an outlier at its successor and left a
\* later index of the window unexamined.
C5_Witness ==
    /\ pc = "done"
    /\ \E x \in DOMAIN data :
           /\ SuccessorInside(x)
           /\ brokeAt[x] = x + 1
           /\ x + 2 < WindowEnd(x)

\* data is a up to s-1 and b from s on, with a # b.
TwoPlateaus(s) ==
    /\ data[0] # data[n - 1]
    /\ \A x \in DOMAIN data : data[x] = IF x < s THEN data[0] ELSE data[n - 1]

\* |b - a| > diff
ClearlySeparated == FGt(FInt(Abs(data[n - 1] - data[0])), DiffVal(diff))

\* C6: for two plateaus meeting at s, with l >= 2, l+1 <= s <= n-2 and
\* |b - a| > diff, the call returns exactly the shift s, rsi[s] > 0 and
\* every other entry of rsi is 0.
C6_TwoPlateausOneShift ==
    \A s \in (l + 1) .. (n - 2) :
        (pc = "done" /\ l >= 2 /\ TwoPlateaus(s) /\ ClearlySeparated) =>
            /\ regime_shift_indices = <<s>>
            /\ \A x \in DOMAIN rsi : FSgn(rsi[x]) = IF x = s THEN 1 ELSE 0

\* A returned run on two plateaus with a positive threshold and room for
\* a second window after the shift.
C6_Witness ==
    /\ pc = "done"
    /\ l >= 2
    /\ ClearlySeparated
    /\ FSgn(DiffVal(diff)) = 1
    /\ \E s \in (l + 1) .. (n - 4) : TwoPlateaus(s)

\* C7: at every test of the outer loop the bounds are r1 - diff and
\* r1 + diff for the current r1.
C7_BoundsFollowMean ==
    (pc = "scan" /\ i < n) =>
        /\ r1_lower = LowerBound(r1, diff)
        /\ r1_upper = UpperBound(r1, diff)

\* C8 as stated: after a candidate x the scan resumes at x+2, x+1 is
\* never tested, and every later index of the window of x is tested.
C8_WindowRetestedByScan ==
    /\ JustProcessed => i = j + 2
    /\ \A x \in DOMAIN data :
           Processed(x) =>
               /\ (x + 1) \notin tested
               /\ pc = "done" =>
                      \A y \in (x + 2) .. (WindowEnd(x) - 1) : y \in tested

\* C8 amended: a later index of the window of x is tested unless it is
\* itself the successor of a later candidate.
C8_ScanResumesAtJPlus2 ==
    /\ JustProcessed => i = j + 2
    /\ \A x \in DOMAIN data :
           Processed(x) =>
               /\ (x + 1) \notin tested
               /\ pc = "done" =>
                      \A y \in (x + 2) .. (WindowEnd(x) - 1) :
                          y \in tested \/ Flagged(y - 1)

\* A returned run in which a later index of a candidate's window was
\* tested again and another was skipped by a later candidate.
C8_Witness ==
    /\ pc = "done"
    /\ \E x \in DOMAIN data :
           /\ Processed(x)
           /\ x + 3 < WindowEnd(x)
           /\ (x + 2) \in tested
           /\ Flagged(x + 2)
           /\ (x + 3) \notin tested

\* C9: a candidate with an empty forward window is not confirmed and
\* leaves r1 and the bounds as they were; n-1 is never a shift index, and
\* with l = 1 no shift is recorded.
C9_EmptyWindowNeverConfirmed ==
    /\ \A x \in ShiftSet : x <= n - 2
    /\ l = 1 => ShiftSet = {}
    /\ (pc = "confirm" /\ ~(j + 1 < WindowEnd(j))) => FSgn(rsi[j]) = 0
    /\ (JustProcessed /\ ~(j + 1 < WindowEnd(j))) =>
           /\ j \notin ShiftSet
           /\ <<r1, r1_lower, r1_upper>> = snap

\* The scan goes on after a candidate at the last index was dropped.
C9_Witness ==
    /\ JustProcessed
    /\ j = n - 1
    /\ l >= 2

\* C10: at every test of the outer loop r1_lower <= r1 <= r1_upper, so a
\* value above r1_upper is above r1 and a value below r1_lower is below r1.
C10_MeanInsideBand ==
    (pc = "scan" /\ i < n) =>
        /\ FLe(r1_lower, r1)
        /\ FLe(r1, r1_upper)
        /\ FGt(FInt(data[i]), r1_upper) => FGt(FInt(data[i]), r1)
        /\ FLt(FInt(data[i]), r1_lower) => FLt(FInt(data[i]), r1)

\* The same with degrees of freedom for the t quantile (l >= 2).
MeanInsideBandWhenDiffIsANumber == l >= 2 => C10_MeanInsideBand

\* No pass of the for loop divides by zero.
NoDivisionByZero ==
    (pc = "window" /\ k < WindowEnd(j)) => FSgn(FScale(avg_var, RInt(l))) = 1

====
